---- MODULE Spec2Model ----
(***************************************************************************)
(* Model of migrate_eip_status.py: the one-off migration of EIP JSON files *)
(* from the deprecated `status` field of a fork relationship to the        *)
(* `statusHistory` array.                                                  *)
(*                                                                         *)
(* JSON values are tagged records.  A Python dict is an ordered sequence   *)
(* of <<key, value>> pairs with pairwise distinct keys; the text of a JSON *)
(* object on disk is a sequence of pairs in which a key may repeat.        *)
(***************************************************************************)
EXTENDS Integers, Sequences, FiniteSets, TLC

VARIABLES dirExists, disk, pc, run, files, idx, migrated, out, exitCode, exc,
          disk0, hist, ended

vars == <<dirExists, disk, pc, run, files, idx, migrated, out, exitCode, exc,
          disk0, hist, ended>>

-----------------------------------------------------------------------------
(* Bounds of the model.                                                    *)

MaxFiles == 2
MaxForks == 2
MaxRuns == 2

-----------------------------------------------------------------------------
(* JSON / Python values.                                                   *)

None == [t |-> "null"]
JBool(b) == [t |-> "bool", b |-> b]
JNum(n) == [t |-> "num", n |-> n]
JStr(s) == [t |-> "str", s |-> s]
JArr(a) == [t |-> "arr", a |-> a]
JObj(o) == [t |-> "obj", o |-> o]

\* isinstance(v, str) / isinstance(v, list) / isinstance(v, dict)
IsStr(v) == v.t = "str"
IsList(v) == v.t = "arr"
IsDict(v) == v.t = "obj"

\* Python truth value of a value json.loads can produce.
Truthy(v) ==
  CASE v.t = "null" -> FALSE
    [] v.t = "bool" -> v.b
    [] v.t = "num" -> v.n # 0
    [] v.t = "str" -> v.s # ""
    [] v.t = "arr" -> v.a # <<>>
    [] v.t = "obj" -> v.o # <<>>

\* Python's `a or b`.
PyOr(a, b) == IF Truthy(a) THEN a ELSE b

Keys(d) == {d.o[i][1] : i \in 1..Len(d.o)}

\* `k in d`
DictHas(d, k) == k \in Keys(d)

KeyIndex(d, k) == CHOOSE i \in 1..Len(d.o) : d.o[i][1] = k

\* d.get(k): the value, None when the key is missing.
DictGet(d, k) == IF DictHas(d, k) THEN d.o[KeyIndex(d, k)][2] ELSE None

\* Mutant: the assignment drops the key and appends it.
DictSet_MovesLast(d, k, v) == JObj(Append(SelectSeq(d.o, LAMBDA p : p[1] # k), <<k, v>>))

\* d[k] = v on an insertion-ordered dict: an existing key keeps its place,
\* a new key goes last.
DictSet(d, k, v) ==
  IF DictHas(d, k)
  THEN JObj([i \in 1..Len(d.o) |-> IF d.o[i][1] = k THEN <<k, v>> ELSE d.o[i]])
  ELSE JObj(Append(d.o, <<k, v>>))

\* Mutant: the pop removes nothing.
DictPop_Keeps(d, k) == d

\* d.pop(k, None)
DictPop(d, k) == JObj(SelectSeq(d.o, LAMBDA p : p[1] # k))

-----------------------------------------------------------------------------
(* json.loads and json.dumps.  A file's content is a record: ok = FALSE is *)
(* text that is not JSON; otherwise v is the JSON text's structure and fmt *)
(* its layout ("indent2": what json.dumps(indent=2, ensure_ascii=False)    *)
(* plus a newline writes; "other": any other layout).                      *)

Malformed == [ok |-> FALSE]
Text(fmt, v) == [ok |-> TRUE, fmt |-> fmt, v |-> v]

\* dict(pairs): a repeated key keeps its first place and its last value.
RECURSIVE DictFromPairs(_, _)
DictFromPairs(pairs, d) ==
  IF pairs = <<>> THEN d
  ELSE DictFromPairs(Tail(pairs), DictSet(d, Head(pairs)[1], Head(pairs)[2]))

RECURSIVE json_loads(_)
json_loads(v) ==
  CASE v.t = "arr" -> JArr([i \in 1..Len(v.a) |-> json_loads(v.a[i])])
    [] v.t = "obj" ->
         DictFromPairs([i \in 1..Len(v.o) |-> <<v.o[i][1], json_loads(v.o[i][2])>>],
                       JObj(<<>>))
    [] OTHER -> v

\* json.dumps(data, indent=2, ensure_ascii=False) + "\n"
json_dumps(data) == Text("indent2", data)

-----------------------------------------------------------------------------
(* The transform of migrate_eip_file.                                      *)

\* line 41
StatusHistoryOf(fork) == PyOr(DictGet(fork, "statusHistory"), JArr(<<>>))

\* Mutant: the copy is not given a statusHistory.
NewFork_NoDefault(fork) == fork

\* line 42
NewFork(fork) == DictSet(fork, "statusHistory", StatusHistoryOf(fork))

\* Mutant: a status of any type counts.
HasStrStatus_AnyStatus(fork) == DictHas(fork, "status")

\* line 44
HasStrStatus(fork) == IsStr(DictGet(fork, "status"))

\* Mutant: the promotion does not look at the existing history.
Promote_Overwrites(fork, new_fork) ==
  IF Truthy(DictGet(fork, "status"))
  THEN DictSet(new_fork, "statusHistory",
               JArr(<<JObj(<< <<"status", DictGet(fork, "status")>> >>)>>))
  ELSE new_fork

\* lines 45-47
Promote(fork, new_fork) ==
  LET status_value == DictGet(fork, "status")
  IN IF Truthy(status_value) /\ ~Truthy(StatusHistoryOf(fork))
     THEN DictSet(new_fork, "statusHistory",
                  JArr(<<JObj(<< <<"status", status_value>> >>)>>))
     ELSE new_fork

\* Mutant: every dict entry marks the document as modified.
MigrateFork_AlwaysModified(fork) ==
  IF HasStrStatus(fork)
  THEN [fork |-> DictPop(Promote(fork, NewFork(fork)), "status"), modified |-> TRUE]
  ELSE [fork |-> NewFork(fork), modified |-> TRUE]

\* Mutant: the status is promoted but left in the entry.
MigrateFork_KeepsStatus(fork) ==
  IF HasStrStatus(fork)
  THEN [fork |-> Promote(fork, NewFork(fork)), modified |-> TRUE]
  ELSE [fork |-> NewFork(fork), modified |-> FALSE]

\* lines 41-52: the body of the loop for a dict entry
MigrateFork(fork) ==
  IF HasStrStatus(fork)
  THEN [fork |-> DictPop(Promote(fork, NewFork(fork)), "status"), modified |-> TRUE]
  ELSE [fork |-> NewFork(fork), modified |-> FALSE]

\* lines 35-52: the loop over fork_relationships
RECURSIVE ForLoop(_, _, _)
ForLoop(rest, acc, modified) ==
  IF rest = <<>> THEN [migrated |-> acc, modified |-> modified]
  ELSE LET fork == Head(rest)
       IN IF ~IsDict(fork)
          THEN ForLoop(Tail(rest), Append(acc, fork), modified)
          ELSE LET r == MigrateFork(fork)
               IN ForLoop(Tail(rest), Append(acc, r.fork), modified \/ r.modified)

\* lines 31-54, for data a dict
Transform(data) ==
  LET fork_relationships == DictGet(data, "forkRelationships")
  IN IF IsList(fork_relationships)
     THEN LET r == ForLoop(fork_relationships.a, <<>>, FALSE)
          IN [data |-> DictSet(data, "forkRelationships", JArr(r.migrated)),
              modified |-> r.modified]
     ELSE [data |-> data, modified |-> FALSE]

-----------------------------------------------------------------------------
(* The input documents.                                                    *)

Pair(k, v) == <<k, v>>
Rec(s) == JObj(<<Pair("status", JStr(s))>>)
Doc(fr) == JObj(<<Pair("eip", JNum(1)), Pair("forkRelationships", fr), Pair("title", JStr("T"))>>)

\* The input has no such key.
NoKey == [t |-> "absent"]

\* The values a `status` key is given in the input.
StatusOpts ==
  {NoKey} \cup {JStr(""), JStr("A"), JNum(5), JBool(TRUE), None, JArr(<<>>), JObj(<<>>)}

\* The values a `statusHistory` key is given in the input.
HistoryOpts ==
  {NoKey} \cup
  {None, JArr(<<>>), JArr(<<Rec("F")>>), JStr(""), JStr("h"), JNum(0), JNum(7),
   JBool(FALSE), JBool(TRUE), JObj(<<>>), JObj(<<Pair("x", JNum(1))>>)}

Field(k, opt) == IF opt = NoKey THEN <<>> ELSE <<Pair(k, opt)>>

\* Entries in three layouts: status before statusHistory (every history
\* beside the usual statuses, every status beside the usual histories),
\* statusHistory first, and a text object that repeats the `status` key.
RichForks ==
  {JObj(<<Pair("forkName", JStr("X"))>> \o Field("status", s) \o Field("statusHistory", h)) :
     s \in {NoKey, JStr(""), JStr("A"), JNum(5)}, h \in HistoryOpts}
  \cup {JObj(<<Pair("forkName", JStr("X"))>> \o Field("status", s) \o Field("statusHistory", h)) :
          s \in StatusOpts, h \in {NoKey, JArr(<<>>), JArr(<<Rec("F")>>)}}
  \cup {JObj(Field("statusHistory", h) \o Field("status", s) \o <<Pair("forkName", JStr("X"))>>) :
          s \in {JStr("A"), JNum(5)}, h \in {JArr(<<>>), JArr(<<Rec("F")>>), JStr("h")}}
  \cup {JObj(<<Pair("status", s1), Pair("forkName", JStr("X")), Pair("status", s2)>>) :
          s1 \in {JStr("A"), JNum(5)}, s2 \in {JStr("B"), None}}

\* Elements of forkRelationships that are not objects.
NonObjects == {None, JStr("x"), JNum(3), JArr(<<Rec("Z")>>)}

SmallForks ==
  {JStr("x"),
   JObj(<<Pair("forkName", JStr("Y")), Pair("status", JStr("B"))>>),
   JObj(<<Pair("forkName", JStr("Y")), Pair("statusHistory", JArr(<<Rec("G")>>))>>)}

RECURSIVE SeqsUpTo(_, _)
SeqsUpTo(S, n) ==
  IF n = 0 THEN {<<>>}
  ELSE LET shorter == SeqsUpTo(S, n - 1)
       IN shorter \cup {Append(q, e) : q \in shorter, e \in S}

\* forkRelationships arrays of at most MaxForks elements: one element of
\* any shape, followed by elements of SmallForks.
ForkArrays ==
  {<<>>} \cup {<<e>> \o q : e \in RichForks \cup NonObjects, q \in SeqsUpTo(SmallForks, MaxForks - 1)}

\* Parseable documents: top-level values that are not objects, objects
\* without a forkRelationships array, and objects with one.
RichValues ==
  {None, JArr(<<>>), JStr("s"), JNum(0), JBool(TRUE)}
  \cup {JObj(<<>>), JObj(<<Pair("title", JStr("T"))>>)}
  \cup {Doc(v) : v \in {None, JStr("x"), JNum(2), JObj(<<Pair("status", JStr("A"))>>)}}
  \cup {Doc(JArr(a)) : a \in ForkArrays}

DOld == Text("other", Doc(JArr(<<JObj(<<Pair("forkName", JStr("X")), Pair("status", JStr("A"))>>)>>)))
DNew == Text("indent2", Doc(JArr(<<JObj(<<Pair("forkName", JStr("X")), Pair("statusHistory", JArr(<<Rec("A")>>))>>)>>)))
DPlain == Text("other", Doc(JArr(<<JObj(<<Pair("forkName", JStr("X"))>>)>>)))
DNoForks == Text("other", JObj(<<Pair("title", JStr("T"))>>))
DList == Text("other", JArr(<<>>))

RichContents ==
  {Malformed, DNew} \cup {Text("other", v) : v \in RichValues}

SmallContents == {Malformed, DOld, DNew, DPlain, DNoForks, DList}

-----------------------------------------------------------------------------
(* The directory.  An entry has a name (1..MaxFiles, in the order of the   *)
(* file names), and is absent, or matches *.json or not, is a regular file *)
(* or not, and can be read or not.                                         *)

Names == 1..MaxFiles

Absent == [present |-> FALSE]
File(json, isfile, readable, content) ==
  [present |-> TRUE, json |-> json, isfile |-> isfile, readable |-> readable, content |-> content]

Slots(contents) ==
  {Absent, File(FALSE, TRUE, TRUE, DOld), File(TRUE, FALSE, FALSE, Malformed),
   File(TRUE, TRUE, FALSE, DOld)}
  \cup {File(TRUE, TRUE, TRUE, c) : c \in contents}

\* EIPS_DIR.glob("*.json") filtered by p.is_file()
Glob(d) == {n \in Names : d[n].present /\ d[n].json /\ d[n].isfile}

\* Mutant: the files are taken in descending order.
RECURSIVE Sorted_Descending(_)
Sorted_Descending(S) ==
  IF S = {} THEN <<>>
  ELSE LET m == CHOOSE x \in S : \A y \in S : x >= y
       IN <<m>> \o Sorted_Descending(S \ {m})

\* sorted(...)
RECURSIVE Sorted(_)
Sorted(S) ==
  IF S = {} THEN <<>>
  ELSE LET m == CHOOSE x \in S : \A y \in S : x <= y
       IN <<m>> \o Sorted(S \ {m})

-----------------------------------------------------------------------------
(* migrate_eip_file up to its write: what the call computes from the file. *)

\* Mutant: the read and the parse are not guarded by try/except.
Call_NoTry(entry) ==
  IF ~entry.readable \/ ~entry.content.ok
  THEN [kind |-> "raise", data |-> None, modified |-> FALSE]
  ELSE LET data == json_loads(entry.content.v)
       IN IF ~IsDict(data)
          THEN [kind |-> "raise", data |-> data, modified |-> FALSE]
          ELSE LET r == Transform(data)
               IN [kind |-> "ok", data |-> r.data, modified |-> r.modified]

\* lines 25-54
Call(entry) ==
  IF ~entry.readable \/ ~entry.content.ok
  THEN [kind |-> "error", data |-> None, modified |-> FALSE]
  ELSE LET data == json_loads(entry.content.v)
       IN IF ~IsDict(data)
          THEN [kind |-> "raise", data |-> data, modified |-> FALSE]
          ELSE LET r == Transform(data)
               IN [kind |-> "ok", data |-> r.data, modified |-> r.modified]

\* The ways path.write_text can end: the file replaced, an error before the
\* file is opened (it keeps its content), an error after it was truncated.
WriteOutcomes == {"ok", "denied", "truncated"}

Written(data, w) == IF w = "ok" THEN json_dumps(data) ELSE Malformed

Event(name, before, c, res, w, after) ==
  [run |-> run, name |-> name, readable |-> disk[name].readable, before |-> before, kind |-> c.kind, data |-> c.data,
   modified |-> c.modified, res |-> res, write |-> w, after |-> after]

-----------------------------------------------------------------------------
(* The run of main.                                                        *)

TypeStart ==
  /\ pc = "start" /\ run = 1 /\ files = <<>> /\ idx = 0 /\ migrated = 0
  /\ out = <<>> /\ exitCode = 0 /\ exc = "none" /\ hist = <<>> /\ ended = <<>>
  /\ disk0 = disk

Init ==
  /\ dirExists \in BOOLEAN
  /\ disk \in [Names -> Slots(SmallContents)]
  /\ dirExists = FALSE => disk = [n \in Names |-> Absent]
  /\ TypeStart

\* The first name holds any document of RichContents; the last name is
\* absent or a file still to migrate.
InitDoc ==
  /\ dirExists \in BOOLEAN
  /\ \E e \in Slots(RichContents), o \in {Absent, File(TRUE, TRUE, TRUE, DOld)} :
       disk = [n \in Names |-> IF n = 1 THEN e ELSE IF n = MaxFiles THEN o ELSE Absent]
  /\ dirExists = FALSE => disk = [n \in Names |-> Absent]
  /\ TypeStart

\* lines 63-64
MainMissingDir ==
  /\ pc = "start" /\ ~dirExists
  /\ pc' = "exit" /\ exitCode' = 1 /\ exc' = "SystemExit"
  /\ UNCHANGED <<dirExists, disk, run, files, idx, migrated, out, disk0, hist, ended>>

\* lines 66-69
MainEnumerate ==
  /\ pc = "start" /\ dirExists
  /\ files' = Sorted(Glob(disk))
  /\ out' = <<[k |-> "found", n |-> Len(files')]>>
  /\ migrated' = 0 /\ idx' = 0 /\ pc' = "loop"
  /\ UNCHANGED <<dirExists, disk, run, exitCode, exc, disk0, hist, ended>>

\* lines 70-73 with migrate_eip_file, lines 23-59: one pass of the loop
MainLoop ==
  /\ pc = "loop" /\ idx < Len(files)
  /\ LET name == files[idx + 1]
         entry == disk[name]
         c == Call(entry)
     IN \/ /\ c.kind = "error"
           /\ out' = Append(out, [k |-> "error", n |-> name])
           /\ hist' = Append(hist, Event(name, entry.content, c, "False", "none", entry.content))
           /\ idx' = idx + 1
           /\ UNCHANGED <<disk, pc, migrated, exitCode, exc>>
        \/ /\ c.kind = "raise"
           /\ hist' = Append(hist, Event(name, entry.content, c, "raise", "none", entry.content))
           /\ pc' = "exit" /\ exitCode' = 1 /\ exc' = "AttributeError"
           /\ UNCHANGED <<disk, idx, migrated, out>>
        \/ /\ c.kind = "ok" /\ ~c.modified
           /\ hist' = Append(hist, Event(name, entry.content, c, "False", "none", entry.content))
           /\ idx' = idx + 1
           /\ UNCHANGED <<disk, pc, migrated, out, exitCode, exc>>
        \/ /\ c.kind = "ok" /\ c.modified
           /\ \E w \in WriteOutcomes :
                LET after == IF w = "denied" THEN entry.content ELSE Written(c.data, w)
                IN /\ disk' = [disk EXCEPT ![name].content = after]
                   /\ IF w = "ok"
                      THEN /\ hist' = Append(hist, Event(name, entry.content, c, "True", w, after))
                           /\ migrated' = migrated + 1
                           /\ out' = Append(out, [k |-> "migrated", n |-> name])
                           /\ idx' = idx + 1
                           /\ UNCHANGED <<pc, exitCode, exc>>
                      ELSE /\ hist' = Append(hist, Event(name, entry.content, c, "raise", w, after))
                           /\ pc' = "exit" /\ exitCode' = 1 /\ exc' = "WriteError"
                           /\ UNCHANGED <<idx, migrated, out>>
  /\ UNCHANGED <<dirExists, run, files, disk0, ended>>

\* lines 75-78
MainSummary ==
  /\ pc = "loop" /\ idx = Len(files)
  /\ out' = out \o <<[k |-> "summary", total |-> Len(files), migrated |-> migrated,
                      unchanged |-> Len(files) - migrated]>>
  /\ pc' = "exit" /\ exitCode' = 0
  /\ UNCHANGED <<dirExists, disk, run, files, idx, migrated, exc, disk0, hist, ended>>

\* The process is terminated from outside between two passes of the loop.
Kill ==
  /\ pc = "loop"
  /\ pc' = "killed"
  /\ UNCHANGED <<dirExists, disk, run, files, idx, migrated, out, exitCode, exc, disk0, hist, ended>>

HowEnded == IF pc = "killed" THEN "killed" ELSE IF exitCode = 0 THEN "completed" ELSE "failed"

\* lines 81-82: the script is started again on the same directory.
Rerun ==
  /\ pc \in {"exit", "killed"} /\ run < MaxRuns
  /\ run' = run + 1 /\ ended' = Append(ended, HowEnded)
  /\ pc' = "start" /\ files' = <<>> /\ idx' = 0 /\ migrated' = 0
  /\ out' = <<>> /\ exitCode' = 0 /\ exc' = "none"
  /\ UNCHANGED <<dirExists, disk, disk0, hist>>

Next == MainMissingDir \/ MainEnumerate \/ MainLoop \/ MainSummary \/ Kill \/ Rerun

Spec == Init /\ [][Next]_vars

\* Runs that nothing terminates from outside.
NextDoc == MainMissingDir \/ MainEnumerate \/ MainLoop \/ MainSummary \/ Rerun

SpecDoc == InitDoc /\ [][NextDoc]_vars

-----------------------------------------------------------------------------
(* Vocabulary of the properties.  hist holds one event per call of         *)
(* migrate_eip_file, in the order of the calls, over all runs.             *)

Events == {hist[i] : i \in DOMAIN hist}
Returned(e) == e.res # "raise"
Parsed(content) == json_loads(content.v)
ForksOf(d) == DictGet(d, "forkRelationships")

\* Events of calls that parsed a JSON object holding a forkRelationships array.
ArrayEvents == {e \in Events : e.kind = "ok" /\ IsList(ForksOf(Parsed(e.before)))}

\* The forkRelationships elements of a parsed document.
ForksIn(d) == ForksOf(d).a

\* An object entry with a string `status`, as the input has it.
StringStatusEntry(f) == IsDict(f) /\ DictHas(f, "status") /\ DictGet(f, "status").t = "str"

HasStringStatusEntry(d) ==
  /\ ForksOf(d).t = "arr"
  /\ \E i \in 1..Len(ForksIn(d)) : StringStatusEntry(ForksIn(d)[i])

\* What a run of main that nothing interrupts and in which no write fails
\* leaves in the directory d.
SingleRun(d) ==
  [n \in Names |->
     IF n \in Glob(d) /\ Call(d[n]).kind = "ok" /\ Call(d[n]).modified
     THEN [d[n] EXCEPT !.content = json_dumps(Call(d[n]).data)]
     ELSE d[n]]

SummaryReached == pc = "exit" /\ dirExists /\ exitCode = 0 /\ exc = "none"

ThisRun == SelectSeq(hist, LAMBDA e : e.run = run)

-----------------------------------------------------------------------------
(* C1: idempotence.  Once a call of migrate_eip_file on a file holding a   *)
(* JSON object has returned, every later call on that file returns False,  *)
(* writes nothing and leaves the content exactly as the first call left    *)
(* it.                                                                     *)
C1_Idempotent ==
  \A i, j \in DOMAIN hist :
    (i < j /\ hist[i].name = hist[j].name /\ hist[i].kind = "ok" /\ Returned(hist[i]))
      => /\ hist[j].res = "False"
         /\ hist[j].write = "none"
         /\ hist[j].before = hist[i].after
         /\ hist[j].after = hist[i].after
         /\ disk[hist[j].name].content = hist[i].after

\* A second call on a file the first call rewrote.
C1_Witness ==
  \E i, j \in DOMAIN hist :
    /\ i < j /\ hist[i].name = hist[j].name
    /\ hist[i].res = "True" /\ hist[i].after # hist[i].before
    /\ hist[j].res = "False"

-----------------------------------------------------------------------------
\* The object entries of forkRelationships in the file as the call left it.
DiskEntries(e) ==
  LET fr == ForksIn(Parsed(e.after))
  IN {fr[i] : i \in {k \in 1..Len(fr) : IsDict(fr[k])}}

(* C2, as claimed: after migrate_eip_file has processed a parseable        *)
(* document whose forkRelationships is an array, no object entry in the    *)
(* file on disk has a `status` key, whatever the value of that key was.    *)
C2_NoStatusKeyLeft ==
  \A e \in ArrayEvents :
    Returned(e) => \A f \in DiskEntries(e) : ~DictHas(f, "status")

(* C2, amended: after such a call no object entry in the file on disk has  *)
(* a `status` key whose value is a string; an entry whose `status` is not  *)
(* a string (number, boolean, null, array, object) still has it, with its  *)
(* value, in what the call computed.                                       *)
C2_NoStringStatusLeft ==
  \A e \in ArrayEvents :
    Returned(e) =>
      /\ \A f \in DiskEntries(e) : ~StringStatusEntry(f)
      /\ \A i \in 1..Len(ForksIn(e.data)) :
           LET old == ForksIn(Parsed(e.before))[i]
               new == ForksIn(e.data)[i]
           IN (IsDict(old) /\ DictHas(old, "status") /\ ~StringStatusEntry(old))
                => DictHas(new, "status") /\ DictGet(new, "status") = DictGet(old, "status")

\* A call rewrote a file that had an entry with a string status.
C2_Witness ==
  \E e \in ArrayEvents :
    /\ e.res = "True" /\ e.write = "ok"
    /\ HasStringStatusEntry(Parsed(e.before))
    /\ \A f \in DiskEntries(e) : ~DictHas(f, "status")

-----------------------------------------------------------------------------
\* existingHistory as the claim has it: statusHistory when it is a
\* sequence, the empty sequence otherwise.
ExistingHistoryIfSequence(f) ==
  IF DictGet(f, "statusHistory").t = "arr" THEN DictGet(f, "statusHistory") ELSE JArr(<<>>)

\* existingHistory as amended: statusHistory when Python takes it for true
\* (a non-empty sequence, string or object, a non-zero number, true), the
\* empty sequence otherwise (missing, null, false, 0, "", [], {}).
ExistingHistoryIfTrue(f) ==
  LET h == DictGet(f, "statusHistory")
  IN IF \/ h.t = "arr" /\ Len(h.a) > 0
        \/ h.t = "str" /\ h.s # ""
        \/ h.t = "obj" /\ Len(h.o) > 0
        \/ h.t = "num" /\ h.n # 0
        \/ h.t = "bool" /\ h.b
     THEN h ELSE JArr(<<>>)

\* The output rule: the promoted one-element history exactly when status is
\* a non-empty string and the existing history is empty.
RuleHolds(old, new, existing) ==
  LET promoted == /\ StringStatusEntry(old) /\ DictGet(old, "status").s # ""
                  /\ existing = JArr(<<>>)
  IN /\ DictHas(new, "statusHistory")
     /\ DictGet(new, "statusHistory") =
          IF promoted
          THEN JArr(<<JObj(<<Pair("status", JStr(DictGet(old, "status").s))>>)>>)
          ELSE existing

(* C3, as claimed: the migrated entry's statusHistory follows the output   *)
(* rule with existingHistory = statusHistory when it is a non-null         *)
(* sequence and the empty sequence otherwise.                              *)
C3_RuleWithSequenceHistory ==
  \A e \in ArrayEvents :
    \A i \in 1..Len(ForksIn(e.data)) :
      LET old == ForksIn(Parsed(e.before))[i]
      IN IsDict(old) => RuleHolds(old, ForksIn(e.data)[i], ExistingHistoryIfSequence(old))

(* C3, amended: the migrated entry's statusHistory follows the output rule *)
(* with existingHistory = statusHistory when that value is true in         *)
(* Python's sense and the empty sequence otherwise; a non-empty            *)
(* pre-existing history is never overwritten or appended to.               *)
C3_RuleWithTruthyHistory ==
  \A e \in ArrayEvents :
    \A i \in 1..Len(ForksIn(e.data)) :
      LET old == ForksIn(Parsed(e.before))[i]
      IN IsDict(old) => RuleHolds(old, ForksIn(e.data)[i], ExistingHistoryIfTrue(old))

\* The quirk: an explicitly empty statusHistory beside a non-empty string
\* status receives the promoted history; and a non-empty history is kept.
C3_Witness ==
  /\ \E e \in ArrayEvents : \E i \in 1..Len(ForksIn(e.data)) :
       LET old == ForksIn(Parsed(e.before))[i]
       IN /\ IsDict(old) /\ DictHas(old, "statusHistory")
          /\ DictGet(old, "statusHistory") = JArr(<<>>)
          /\ DictGet(old, "status") = JStr("A")
          /\ DictGet(ForksIn(e.data)[i], "statusHistory") = JArr(<<Rec("A")>>)

-----------------------------------------------------------------------------
(* C4, as claimed: after migrate_eip_file has processed a parseable        *)
(* document that had a forkRelationships array, every object entry of the  *)
(* array in the file on disk has a `statusHistory` key.                    *)
C4_EveryDiskEntryHasHistory ==
  \A e \in ArrayEvents :
    Returned(e) => \A f \in DiskEntries(e) : DictHas(f, "statusHistory")

(* C4, amended: every object entry has a `statusHistory` key in the data   *)
(* the call computed, and in the file on disk when the call rewrote it,    *)
(* that is when some object entry had a string status; when none had, the  *)
(* file is not written and its entries are as they were.                   *)
C4_HistoryKeyWhenRewritten ==
  \A e \in ArrayEvents :
    Returned(e) =>
      /\ \A i \in 1..Len(ForksIn(e.data)) :
           IsDict(ForksIn(e.data)[i]) => DictHas(ForksIn(e.data)[i], "statusHistory")
      /\ HasStringStatusEntry(Parsed(e.before))
           => \A f \in DiskEntries(e) : DictHas(f, "statusHistory")
      /\ ~HasStringStatusEntry(Parsed(e.before)) => e.after = e.before

\* A rewritten file in which an entry that had neither key has an empty
\* statusHistory.
C4_Witness ==
  \E e \in ArrayEvents : \E i \in 1..Len(ForksIn(e.data)) :
    LET old == ForksIn(Parsed(e.before))[i]
    IN /\ e.res = "True"
       /\ IsDict(old) /\ ~DictHas(old, "status") /\ ~DictHas(old, "statusHistory")
       /\ DictGet(ForksIn(Parsed(e.after))[i], "statusHistory") = JArr(<<>>)

-----------------------------------------------------------------------------
(* C5, as claimed: no exception escapes the per-file loop.  Whatever the   *)
(* files hold and whichever read, parse or write fails, a run of main on   *)
(* an existing directory ends with the summary, no uncaught exception and  *)
(* exit status zero.                                                       *)
C5_NoExceptionEscapes ==
  (pc = "exit" /\ dirExists) =>
     /\ exc = "none" /\ exitCode = 0
     /\ Len(out) > 0 /\ out[Len(out)].k = "summary"

-----------------------------------------------------------------------------
\* A file that cannot be read or whose text is not JSON.
BadFile(entry) == entry.present /\ entry.json /\ entry.isfile /\ (~entry.readable \/ ~entry.content.ok)
BadEvent(e) == ~e.readable \/ ~e.before.ok

\* The directory without its bad files.
WithoutBad(d) == [n \in Names |-> IF BadFile(d[n]) THEN Absent ELSE d[n]]

(* C6: parse failure isolation.  A call on a file that cannot be read or   *)
(* is malformed JSON logs the error with the file name, returns False and  *)
(* leaves the content unchanged; the run goes on; the summary's total      *)
(* counts the bad file, which is tallied as unchanged and not as migrated; *)
(* and when the run completes every other file is as a run on the          *)
(* directory without the bad files leaves it.                              *)
C6_ParseFailureIsolated ==
  /\ \A i \in DOMAIN hist :
       LET e == hist[i]
       IN BadEvent(e) =>
            /\ e.res = "False" /\ e.write = "none" /\ e.after = e.before
            /\ disk[e.name].content = e.before
            /\ e.run = run =>
                 /\ [k |-> "error", n |-> e.name] \in {out[x] : x \in DOMAIN out}
                 /\ [k |-> "migrated", n |-> e.name] \notin {out[x] : x \in DOMAIN out}
                 /\ i = Len(hist) =>
                      /\ exc = "none" /\ idx = Len(ThisRun)
                      /\ pc \in {"loop", "killed"} \/ SummaryReached
  /\ (SummaryReached /\ run = 1) =>
       LET bad == {n \in Names : BadFile(disk0[n])}
           sum == out[Len(out)]
       IN /\ sum.total = Cardinality(Glob(disk0))
          /\ bad \subseteq Glob(disk0)
          /\ sum.unchanged >= Cardinality(bad)
          /\ \A n \in Names \ bad : disk[n] = SingleRun(WithoutBad(disk0))[n]
          /\ \A n \in bad : disk[n] = disk0[n]

\* A completed run over a malformed file and a file it migrated: total 2,
\* migrated 1, unchanged 1.
C6_Witness ==
  /\ SummaryReached /\ run = 1
  /\ \E i, j \in DOMAIN hist :
       /\ BadEvent(hist[i]) /\ ~hist[i].before.ok /\ hist[j].res = "True"
  /\ out[Len(out)] = [k |-> "summary", total |-> 2, migrated |-> 1, unchanged |-> 1]

-----------------------------------------------------------------------------
(* C7: a file is rewritten if and only if changed is true, and changed is  *)
(* true if and only if forkRelationships is an array with at least one     *)
(* object entry whose status is a string; a file whose document is not     *)
(* changed keeps its content; and only the file being processed is ever    *)
(* written.                                                                *)
C7_WrittenIffChanged ==
  /\ \A e \in Events :
       /\ e.write # "none" <=> e.modified
       /\ e.res = "True" <=> (e.modified /\ e.write = "ok")
       /\ e.kind = "ok" => (e.modified <=> HasStringStatusEntry(Parsed(e.before)))
       /\ e.kind # "ok" => ~e.modified
       /\ ~e.modified => e.after = e.before
  /\ \A n \in Names :
       disk[n] # disk0[n] =>
         \E e \in Events : e.name = n /\ e.modified /\ e.write \in {"ok", "truncated"}

\* An array of forkRelationships without a string status (a non-object
\* element and an object whose status is a number) was left unwritten.
C7_Witness ==
  \E e \in ArrayEvents :
    /\ e.res = "False" /\ e.after = e.before /\ e.before.fmt = "other"
    /\ \E i, j \in 1..Len(ForksIn(Parsed(e.before))) :
         /\ ~IsDict(ForksIn(Parsed(e.before))[i])
         /\ IsDict(ForksIn(Parsed(e.before))[j])
         /\ DictGet(ForksIn(Parsed(e.before))[j], "status") = JNum(5)

-----------------------------------------------------------------------------
Notices == SelectSeq(out, LAMBDA l : l.k = "migrated")
Overwritten == SelectSeq(ThisRun, LAMBDA e : e.write # "none" /\ e.after # e.before)

(* C8: summary consistency.  When main reaches the summary, total is the   *)
(* number of .json files enumerated, migrated + unchanged = total,         *)
(* migrated is the number of files overwritten during this run, the        *)
(* migrated notices are in the processing order, and the files were        *)
(* processed sorted by name, each exactly once.                            *)
C8_SummaryConsistent ==
  SummaryReached =>
    LET sum == out[Len(out)]
    IN /\ sum.k = "summary"
       /\ sum.total = Cardinality(Glob(disk))
       /\ sum.migrated + sum.unchanged = sum.total
       /\ sum.migrated = Len(Overwritten)
       /\ Len(Notices) = Len(Overwritten)
       /\ \A i \in 1..Len(Notices) : Notices[i].n = Overwritten[i].name
       /\ Len(ThisRun) = Cardinality(Glob(disk))
       /\ {ThisRun[i].name : i \in 1..Len(ThisRun)} = Glob(disk)
       /\ \A i, j \in 1..Len(ThisRun) : i < j => ThisRun[i].name < ThisRun[j].name

\* A summary over two files, one migrated.
C8_Witness ==
  /\ SummaryReached
  /\ Len(ThisRun) = 2 /\ Len(Notices) = 1
  /\ out[Len(out)].migrated = 1 /\ out[Len(out)].unchanged = 1

-----------------------------------------------------------------------------
\* Some earlier run was terminated from outside and none ended on an
\* exception.
Resumed ==
  /\ \E r \in DOMAIN ended : ended[r] = "killed"
  /\ \A r \in DOMAIN ended : ended[r] # "failed"

(* C9: resumability.  When a run of main is terminated from outside after  *)
(* any number of files and main then runs to completion, every file holds  *)
(* what one uninterrupted run would have left, and the later run does not  *)
(* rewrite a file an earlier run rewrote.                                  *)
C9_Resumable ==
  (SummaryReached /\ Resumed) =>
    /\ disk = SingleRun(disk0)
    /\ \A i, j \in DOMAIN hist :
         (i < j /\ hist[i].name = hist[j].name /\ hist[i].write = "ok")
           => hist[j].write = "none"

\* The first run rewrote a file and was killed; the second completed, and
\* migrated a file the first had not reached.
C9_Witness ==
  /\ SummaryReached /\ run = 2 /\ ended = <<"killed">>
  /\ \E i \in DOMAIN hist : hist[i].run = 1 /\ hist[i].write = "ok"
  /\ \E i \in DOMAIN hist : hist[i].run = 2 /\ hist[i].write = "ok"

-----------------------------------------------------------------------------
\* The fields of an object other than status and statusHistory.
OtherFields(f) == SelectSeq(f.o, LAMBDA q : q[1] \notin {"status", "statusHistory"})
KeySeq(f) == [i \in 1..Len(f.o) |-> f.o[i][1]]
KeysBut(f, k) == SelectSeq(KeySeq(f), LAMBDA x : x # k)

(* C10: structure preservation.  The migrated forkRelationships has the    *)
(* length of the original; a non-object element keeps its value and        *)
(* index; an object element keeps its fields other than status and         *)
(* statusHistory, with their values, in their order; statusHistory stays   *)
(* where it was when it pre-existed and is last when it is added; every    *)
(* other top-level field of the document is unchanged.                     *)
C10_StructurePreserved ==
  \A e \in Events :
    e.kind = "ok" =>
      LET old == Parsed(e.before)
          new == e.data
      IN /\ KeySeq(new) = KeySeq(old)
         /\ \A i \in 1..Len(old.o) :
              old.o[i][1] # "forkRelationships" => new.o[i] = old.o[i]
         /\ ~IsList(ForksOf(old)) => new = old
         /\ IsList(ForksOf(old)) =>
              /\ IsList(ForksOf(new)) /\ Len(ForksIn(new)) = Len(ForksIn(old))
              /\ \A i \in 1..Len(ForksIn(old)) :
                   LET f == ForksIn(old)[i]
                       g == ForksIn(new)[i]
                   IN /\ ~IsDict(f) => g = f
                      /\ IsDict(f) =>
                           /\ IsDict(g)
                           /\ OtherFields(g) = OtherFields(f)
                           /\ DictHas(f, "statusHistory")
                                => KeysBut(g, "status") = KeysBut(f, "status")
                           /\ ~DictHas(f, "statusHistory")
                                => KeySeq(g) =
                                     Append(IF StringStatusEntry(f) THEN KeysBut(f, "status")
                                            ELSE KeySeq(f), "statusHistory")

\* A non-object element kept its place before a migrated entry whose
\* statusHistory came first.
C10_Witness ==
  \E e \in ArrayEvents :
    /\ e.res = "True" /\ Len(ForksIn(e.data)) = 2
    /\ IsDict(ForksIn(Parsed(e.before))[1])
    /\ KeySeq(ForksIn(Parsed(e.before))[1]) = <<"statusHistory", "status", "forkName">>
    /\ KeySeq(ForksIn(e.data)[1]) = <<"statusHistory", "forkName">>
    /\ ForksIn(e.data)[2] = JStr("x")

====
